---- MODULE Spec2Model ----
(***************************************************************************)
(* Model of PersistenceManager (src/src/permission-mcp-server.ts, second   *)
(* half of the file): the debounced update queue, the merge of state       *)
(* updates, the temp-file/backup/rename write protocol and the loader with *)
(* backup recovery, on a disk of three paths (state file, .backup, .tmp).  *)
(***************************************************************************)
EXTENDS Integers, Sequences, FiniteSets, TLC

\* ------------------------------------------------------------------ bounds
MaxUpdates  == 2   \* fragments handed to scheduleAutoSave / forceSave
MaxCalls    == 3   \* flush requests (forceSave calls and timer callbacks)
MaxFailures == 1   \* injected I/O failures (disk full, permission denied)
MaxLoads    == 2   \* direct loadState() calls by producers
MaxBatch    == 2   \* fragments in one direct mergeUpdates call
MaxTime     == 2   \* seconds a session run lets pass while it is idle

\* the debounce delay of scheduleAutoSave, in seconds
SaveDelay   == 2

\* ------------------------------------------------------------ JSON values
Keys        == {"k1", "k2"}
REPLACE_ALL == "__REPLACE_ALL__"
Null        == "null"        \* JSON null
Undef       == "undefined"   \* JS undefined (dropped by JSON.stringify)
TrueV       == "true"        \* the marker's value
Recs        == {"v1", "v2"}  \* record objects (config / session)

EmptyMap == [k \in {} |-> Null]

FAbsent   == [t |-> "absent"]            \* field missing (or falsy)
FString   == [t |-> "string"]            \* field of a non-object type
FMap(m)   == [t |-> "map", m |-> m]      \* field holding an object

\* ------------------------------------------------------------ disk files
Missing     == [kind |-> "missing"]
Directory   == [kind |-> "dir"]
TextFile(j) == [kind |-> "file", json |-> j]
NotJson     == [t |-> "invalid"]         \* content JSON.parse rejects
JsonNull    == [t |-> "null"]            \* content parsing to a falsy value
JsonScalar  == [t |-> "scalar"]          \* content parsing to a non-object
JsonObject(v, wd, ss) ==
  [t |-> "object", version |-> v, lastUpdated |-> "",
   workingDirectories |-> wd, sessions |-> ss]

\* timestamps: "" is an absent lastUpdated field, T0 the time an earlier
\* run of the program wrote its file, ToString(n) the n-th tick of the clock
T0 == "t0"
Now(c) == ToString(c)

ExistsSync(f) == f.kind # "missing"

\* ------------------------------------------------------------ BotState
NullState == [t |-> "null"]
BotState(v, wd, ss) ==
  [t |-> "state", version |-> v, workingDirectories |-> wd, sessions |-> ss]

GetNoState == NullState
GetEmptyState == BotState("1.0.0", EmptyMap, EmptyMap)

\* StateUpdate: each category is FAbsent or FMap(m)
StateUpdate(wd, ss) == [workingDirectories |-> wd, sessions |-> ss]

Falsy(v) == v \in {Null, Undef}
Truthy(m, k) == k \in DOMAIN m /\ ~Falsy(m[k])
Without(m, k) == [x \in DOMAIN m \ {k} |-> m[x]]

\* the for-of loop over Object.entries(update.<category>): null/undefined
\* deletes the key, anything else is assigned
MergeEntriesNoDelete(cur, upd) ==
  [k \in DOMAIN cur \cup DOMAIN upd |->
     IF k \in DOMAIN upd THEN upd[k] ELSE cur[k]]
MergeEntries(cur, upd) ==
  LET dels == {k \in DOMAIN upd : Falsy(upd[k])}
      sets == DOMAIN upd \ dels
  IN [k \in (DOMAIN cur \ dels) \cup sets |->
        IF k \in sets THEN upd[k] ELSE cur[k]]

MergeWorkingDirectories(cur, f) ==
  IF f.t # "map" THEN cur
  ELSE IF DOMAIN f.m = {} \/ Truthy(f.m, REPLACE_ALL)
       THEN Without(f.m, REPLACE_ALL)
       ELSE MergeEntries(cur, f.m)

MergeSessionsNoSweep(cur, f) ==
  IF f.t # "map" THEN cur ELSE MergeEntries(cur, f.m)
MergeSessionsMarkerKept(cur, f) ==
  IF f.t # "map" THEN cur
  ELSE IF Truthy(f.m, REPLACE_ALL) THEN f.m ELSE MergeEntries(cur, f.m)
MergeSessions(cur, f) ==
  IF f.t # "map" THEN cur
  ELSE IF Truthy(f.m, REPLACE_ALL)
       THEN Without(f.m, REPLACE_ALL)
       ELSE MergeEntries(cur, f.m)

ApplyUpdateCrossed(result, update) ==
  BotState(result.version,
           MergeWorkingDirectories(result.workingDirectories,
                                   update.workingDirectories),
           MergeSessions(MergeSessions(result.sessions, update.sessions),
                         update.workingDirectories))
ApplyUpdate(result, update) ==
  BotState(result.version,
           MergeWorkingDirectories(result.workingDirectories,
                                   update.workingDirectories),
           MergeSessions(result.sessions, update.sessions))

RECURSIVE MergeUpdatesBackwards(_, _)
MergeUpdatesBackwards(currentState, updates) ==
  IF updates = <<>> THEN currentState
  ELSE ApplyUpdate(MergeUpdatesBackwards(currentState, Tail(updates)),
                   Head(updates))

RECURSIVE MergeUpdates(_, _)
MergeUpdates(currentState, updates) ==
  IF updates = <<>> THEN currentState
  ELSE MergeUpdates(ApplyUpdate(currentState, Head(updates)), Tail(updates))

\* JSON.stringify(mergedState): keys whose value is undefined are omitted
DropUndef(m) == [k \in {x \in DOMAIN m : m[x] # Undef} |-> m[k]]
StringifyDirsOnly(state) ==
  TextFile(JsonObject(state.version,
                      FMap(DropUndef(state.workingDirectories)),
                      FMap(EmptyMap)))
Stringify(state) ==
  TextFile(JsonObject(state.version,
                      FMap(DropUndef(state.workingDirectories)),
                      FMap(DropUndef(state.sessions))))

\* mergedState.lastUpdated = new Date().toISOString(), as it is serialized.
\* BotState above carries the version and the two maps; the timestamp is
\* followed on the file, where it is written and read back.
WithLastUpdated(f, t) == [f EXCEPT !.json = [f.json EXCEPT !.lastUpdated = t]]

\* readFileSync + JSON.parse + defaults + shape validation; null on any throw
OrEmptyKept(f) == f
OrEmpty(f) == IF f.t = "absent" THEN FMap(EmptyMap) ELSE f
LoadAndValidateFile(f) ==
  IF f.kind # "file" THEN NullState
  ELSE IF f.json.t # "object" THEN NullState
  ELSE LET wd == OrEmpty(f.json.workingDirectories)
           ss == OrEmpty(f.json.sessions)
       IN IF wd.t # "map" \/ ss.t # "map" THEN NullState
          ELSE BotState(IF f.json.version = "" THEN "1.0.0"
                        ELSE f.json.version, wd.m, ss.m)

\* parsed.lastUpdated || new Date().toISOString(), of a file that validates
LastUpdatedOf(f, now) ==
  IF f.json.lastUpdated = "" THEN now ELSE f.json.lastUpdated

\* ----------------------------------------------------------- fs outcomes
\* copyFileSync(src, dst) succeeds only from a regular file onto a path
\* that is not a directory
CanCopy(src, dst) == src.kind = "file" /\ dst.kind # "dir"
\* a copy that throws leaves dst as it was, or already truncated, or removed
CopyFailResults(dst) ==
  IF dst.kind = "dir" THEN {dst} ELSE {dst, TextFile(NotJson), Missing}
\* renameSync(tmp, dst) cannot replace a directory by a file
CanRename(src, dst) == src.kind = "file" /\ dst.kind # "dir"

\* ------------------------------------------------------------- loadState
\* copyFileSync(backupPath, filePath) having succeeded
RestoreSkipped(p, b) == p
RestoreBackup(p, b) == b

\* the outer catch of loadState
LoadStateCatch == GetEmptyState

\* All outcomes of loadState() on primary p and backup b:
\* [state: what is returned, primary: the primary file afterwards,
\*  from: the branch taken, failed: whether a file operation threw].
\* inject = TRUE admits a copy failing for an external reason.
LoadStateOutcomes(p, b, inject) ==
  LET main == IF ExistsSync(p) THEN LoadAndValidateFile(p) ELSE NullState
      bk   == IF ExistsSync(b) THEN LoadAndValidateFile(b) ELSE NullState
      restored == [state |-> bk, primary |-> RestoreBackup(p, b),
                   from |-> "backup", failed |-> FALSE]
      thrown(q) == [state |-> LoadStateCatch, primary |-> q,
                    from |-> "catch", failed |-> TRUE]
  IN IF main.t = "state"
     THEN {[state |-> main, primary |-> p, from |-> "main", failed |-> FALSE]}
     ELSE IF bk.t = "state"
     THEN IF ~CanCopy(b, p) THEN {thrown(q) : q \in CopyFailResults(p)}
          ELSE {restored} \cup
               (IF inject THEN {thrown(q) : q \in CopyFailResults(p)} ELSE {})
     ELSE {[state |-> GetEmptyState, primary |-> p, from |-> "empty",
            failed |-> FALSE]}

\* ------------------------------------------------------------ the state
VARIABLES
  primary, backup, tmp,          \* filePath, backupPath, filePath + ".tmp"
  pendingUpdates, saveTimeout,   \* PersistenceManager fields
  isWriting, writeLock,
  timers,                        \* the event loop's live timers: for each,
                                 \* the seconds left until it is due
  quiet,                         \* history: seconds since the last
                                 \* scheduleAutoSave call, up to SaveDelay
  procs, microtasks,             \* flush requests and the promise job queue
  save,                          \* the running performSave() call
  expected, failures, nUpdates,  \* history: fold of all fragments, failures
  flushLog, lastLoad, nLoads,    \* history: last flush, last loadState()
  mergeCall,                     \* a direct call of mergeUpdates
  clock,                         \* the wall clock read by new Date()
  callMark,                      \* history: per flush request, how many of
                                 \* the fragments handed over before it was
                                 \* made are still pending
  lastStats,                     \* history: last getStats()
  dataDir, testFile,             \* path.dirname(filePath), filePath + ".test"
  lastHealth,                    \* history: last isHealthy()
  configs, wdmLog,               \* WorkingDirectoryManager.configs; history:
                                 \* the last restart
  sessions,                      \* ClaudeHandler.sessions
  lastCleanup                    \* history: last cleanupOldSessions()

vars == <<primary, backup, tmp, pendingUpdates, saveTimeout, isWriting,
          writeLock, procs, microtasks, save, expected, failures, nUpdates,
          flushLog, lastLoad, nLoads, mergeCall, clock, callMark, lastStats,
          dataDir, testFile, lastHealth, configs, wdmLog, timers, quiet,
          sessions, lastCleanup>>

disk    == <<primary, backup, tmp>>
debounce == <<saveTimeout, timers, quiet>>
manager == <<pendingUpdates, debounce, isWriting, writeLock>>
history == <<expected, failures, nUpdates, flushLog, lastLoad, nLoads>>
health  == <<dataDir, testFile, lastHealth>>
wdm     == <<configs, wdmLog>>
\* what the queue and the write protocol never touch
handler == <<sessions, lastCleanup>>
others  == <<mergeCall, lastStats, health, wdm, handler>>

Procs == 1..MaxCalls

NoSave  == [pc |-> "idle", owner |-> 0, merged |-> NullState]
NoFlush == [result |-> "none"]
NoLoad  == [called |-> FALSE]
NoMerge == [called |-> FALSE]
NoStats == [called |-> FALSE]
NoHealth == [called |-> FALSE]
NoRestart == [restarted |-> FALSE, calls |-> 0]
NoTimers == [t \in {} |-> 0]
NoCleanup == [called |-> FALSE]

Fail(n) == IF n < MaxFailures THEN n + 1 ELSE n

\* ------------------------------------------------------------ inputs
Cfg1 == "k1" :> "v1"
Cfg2 == "k1" :> "v2"
Sweep == (REPLACE_ALL :> TrueV) @@ ("k2" :> "v1")

\* fragments producers hand to scheduleAutoSave / forceSave
Updates ==
  { StateUpdate(FMap(Cfg1), FAbsent),             \* set k1
    StateUpdate(FMap(Cfg2), FAbsent),             \* set k1 to another value
    StateUpdate(FAbsent, FMap(Sweep)) }           \* cleanupOldSessions sweep

GoodFile ==
  WithLastUpdated(Stringify(BotState("1.0.0", "k2" :> "v1", "k1" :> "v2")), T0)
OldFile ==
  WithLastUpdated(Stringify(BotState("1.0.0", "k1" :> "v2", "k2" :> "v2")), T0)

InitPrimary == {Missing, Directory, TextFile(NotJson), GoodFile}
InitBackup  == {Missing, TextFile(NotJson), OldFile}

\* what loadState() returns on a fresh start when no file operation fails
InitialState(p, b) ==
  (CHOOSE o \in LoadStateOutcomes(p, b, FALSE) : TRUE).state

\* the parts of the state outside the queue, the files and their history,
\* with no WorkingDirectoryManager attached
InitOthers ==
  /\ clock = 0
  /\ callMark = [p \in Procs |-> 0]
  /\ lastStats = NoStats
  /\ dataDir = "dir"
  /\ testFile = Missing
  /\ lastHealth = NoHealth
  /\ wdmLog = NoRestart
  /\ sessions = EmptyMap
  /\ lastCleanup = NoCleanup

Init ==
  /\ primary \in InitPrimary
  /\ backup \in InitBackup
  /\ tmp = Missing
  /\ pendingUpdates = <<>>
  /\ saveTimeout = "null"
  /\ timers = NoTimers
  /\ quiet = 0
  /\ isWriting = FALSE
  /\ writeLock = "null"
  /\ procs = [p \in Procs |-> "unused"]
  /\ microtasks = <<>>
  /\ save = NoSave
  /\ expected = InitialState(primary, backup)
  /\ failures = 0
  /\ nUpdates = 0
  /\ flushLog = NoFlush
  /\ lastLoad = NoLoad
  /\ nLoads = 0
  /\ mergeCall = NoMerge
  /\ InitOthers
  /\ configs = EmptyMap

\* JavaScript runs one task at a time: nothing interleaves with the
\* synchronous body of performSave
JsIdle == save.pc = "idle"

FreeProcs == {p \in Procs : procs[p] = "unused"}
NewProc == CHOOSE p \in FreeProcs : \A q \in FreeProcs : p <= q

\* ------------------------------------------------- flushPendingUpdates
\* The synchronous part of flushPendingUpdates() run by request p, with
\* pend the pending list and mt the job queue at that moment.
\* if (this.pendingUpdates.length === 0) return;
AlwaysSomething(pend) == FALSE
NothingPending(pend) == pend = <<>>

\* if (this.isWriting) { ... return; }
NoWriteSeen == FALSE
WriteInProgress == isWriting

FlushPendingUpdates(p, pend, mt) ==
  /\ pendingUpdates' = pend
  /\ IF WriteInProgress THEN
       /\ IF writeLock # "null"
          THEN /\ procs' = [procs EXCEPT ![p] =
                     IF writeLock = "rejected" THEN "awaitLockRej"
                     ELSE "awaitLock"]
               /\ microtasks' = Append(mt, p)
          ELSE /\ procs' = [procs EXCEPT ![p] = "resolved"]
               /\ microtasks' = mt
       /\ UNCHANGED <<isWriting, writeLock, save, flushLog>>
     ELSE IF NothingPending(pend) THEN
       /\ procs' = [procs EXCEPT ![p] = "resolved"]
       /\ microtasks' = mt
       /\ UNCHANGED <<isWriting, writeLock, save, flushLog>>
     ELSE
       /\ isWriting' = TRUE
       /\ save' = [pc |-> "load", owner |-> p, merged |-> NullState]
       /\ flushLog' = [result |-> "running", prePrimary |-> primary,
                       preBackup |-> backup, updates |-> pend,
                       current |-> NullState, merged |-> NullState,
                       lastUpdated |-> "",
                       threw |-> FALSE, retry |-> procs[p] = "awaitLock",
                       prev |-> flushLog.result]
       /\ procs' = [procs EXCEPT ![p] = "performSave"]
       /\ microtasks' = mt
       /\ UNCHANGED writeLock

\* callMark once the pending list has become `pend`: the list is only
\* appended to or emptied, so what it still holds from before a request is
\* at most its length
StillPending(marks, pend) ==
  [p \in Procs |-> IF marks[p] < Len(pend) THEN marks[p] ELSE Len(pend)]

\* this.pendingUpdates.push(update)
PushFront(list, update) == <<update>> \o list
Push(list, update) == Append(list, update)

\* if (this.saveTimeout) clearTimeout(this.saveTimeout);
\* this.saveTimeout = setTimeout(..., 2000)
\* with live the event loop's timers and id the new timer's handle: the
\* field holds the handle of the newest timer, the only one live
TimerAdded(live, id) == (id :> SaveDelay) @@ live
TimerNeverArmed(live, id) == NoTimers
RearmTimer(live, id) == id :> SaveDelay

\* the body of scheduleAutoSave(update): push, clearTimeout, setTimeout
Enqueue(update) ==
  /\ JsIdle
  /\ nUpdates < MaxUpdates
  /\ pendingUpdates' = Push(pendingUpdates, update)
  /\ saveTimeout' = "armed"
  /\ timers' = RearmTimer(timers, nUpdates + 1)
  /\ quiet' = 0
  /\ expected' = ApplyUpdate(expected, update)
  /\ nUpdates' = nUpdates + 1

\* scheduleAutoSave(update)
ScheduleWritesThrough(update) ==
  /\ Enqueue(update)
  /\ primary' = WithLastUpdated(Stringify(expected'), Now(clock))
  /\ UNCHANGED <<backup, tmp, isWriting, writeLock, procs, microtasks, save,
                 failures, flushLog, lastLoad, nLoads, others, clock, callMark>>
ScheduleAutoSave(update) ==
  /\ Enqueue(update)
  /\ UNCHANGED <<disk, isWriting, writeLock, procs, microtasks, save,
                 failures, flushLog, lastLoad, nLoads, others, clock, callMark>>

\* if (this.saveTimeout) { clearTimeout(this.saveTimeout);
\*                          this.saveTimeout = null; }
TimerLeftArmed(live) == live
CancelTimer(live) == NoTimers

\* forceSave(update) / forceSave()
ForceSave(arg) ==
  /\ JsIdle
  /\ FreeProcs # {}
  /\ arg.given => nUpdates < MaxUpdates
  /\ saveTimeout' = "null"
  /\ timers' = CancelTimer(timers)
  /\ UNCHANGED quiet
  /\ expected' = IF arg.given THEN ApplyUpdate(expected, arg.update)
                 ELSE expected
  /\ nUpdates' = IF arg.given THEN nUpdates + 1 ELSE nUpdates
  /\ FlushPendingUpdates(NewProc,
        IF arg.given THEN Push(pendingUpdates, arg.update)
        ELSE pendingUpdates, microtasks)
  /\ callMark' = [callMark EXCEPT ![NewProc] = Len(pendingUpdates')]
  /\ UNCHANGED <<disk, failures, lastLoad, nLoads, others, clock>>

ForceSaveArgs ==
  {[given |-> FALSE]} \cup {[given |-> TRUE, update |-> u] : u \in Updates}

\* the setTimeout callback of live timer t: runs as a task of its own,
\* once the job queue is drained; the handle stays in saveTimeout
TimeoutCallback(t) ==
  /\ JsIdle
  /\ microtasks = <<>>
  /\ FreeProcs # {}
  /\ timers' = [s \in DOMAIN timers \ {t} |-> timers[s]]
  /\ saveTimeout' = IF saveTimeout = "armed" /\ \A s \in DOMAIN timers : s <= t
                    THEN "expired" ELSE saveTimeout
  /\ UNCHANGED quiet
  /\ FlushPendingUpdates(NewProc, pendingUpdates, microtasks)
  /\ callMark' = [callMark EXCEPT ![NewProc] = Len(pendingUpdates')]
  /\ UNCHANGED <<disk, expected, failures, nUpdates, lastLoad, nLoads,
                 others, clock>>

\* a timer fires, with the passing of time left out: any live timer may
TimerFires == \E t \in DOMAIN timers : TimeoutCallback(t)

\* a timer fires once its delay has passed
TimerDue == \E t \in DOMAIN timers : timers[t] = 0 /\ TimeoutCallback(t)

\* a second passes on the wall clock while a timer is waiting
Tick ==
  /\ JsIdle
  /\ \E t \in DOMAIN timers : timers[t] > 0
  /\ timers' = [t \in DOMAIN timers |->
                  IF timers[t] > 0 THEN timers[t] - 1 ELSE 0]
  /\ quiet' = IF quiet < SaveDelay THEN quiet + 1 ELSE quiet
  /\ UNCHANGED <<disk, pendingUpdates, saveTimeout, isWriting, writeLock,
                 procs, microtasks, save, history, others, clock, callMark>>

\* await this.writeLock; return this.flushPendingUpdates();
RetryFlushDropped(p) ==
  /\ procs' = [procs EXCEPT ![p] = "resolved"]
  /\ microtasks' = Tail(microtasks)
  /\ UNCHANGED <<pendingUpdates, isWriting, writeLock, save, flushLog>>
RetryFlush(p) == FlushPendingUpdates(p, pendingUpdates, Tail(microtasks))

\* finally { this.isWriting = false; this.writeLock = null; }
GuardKept == UNCHANGED <<isWriting, writeLock>>
ReleaseGuard ==
  /\ isWriting' = FALSE
  /\ writeLock' = "null"

\* the continuation of an await, taken from the head of the job queue
ResumeAwait ==
  /\ JsIdle
  /\ microtasks # <<>>
  /\ LET p == Head(microtasks) IN
       CASE procs[p] = "awaitSave" ->      \* the finally block of the owner
              /\ ReleaseGuard
              /\ procs' = [procs EXCEPT ![p] =
                    IF writeLock = "rejected" THEN "rejected" ELSE "resolved"]
              /\ microtasks' = Tail(microtasks)
              /\ UNCHANGED <<pendingUpdates, save, flushLog>>
         [] procs[p] = "awaitLock" ->      \* return this.flushPendingUpdates()
              RetryFlush(p)
         [] procs[p] = "awaitLockRej" ->   \* the awaited promise rejected
              /\ procs' = [procs EXCEPT ![p] = "rejected"]
              /\ microtasks' = Tail(microtasks)
              /\ UNCHANGED <<pendingUpdates, isWriting, writeLock, save,
                             flushLog>>
  /\ UNCHANGED <<disk, debounce, expected, failures, nUpdates, lastLoad,
                 nLoads, others, clock, callMark>>

\* ------------------------------------------------------------ performSave
\* the catch block of performSave: what becomes of its promise
PerformSaveRethrows == "rejected"
PerformSaveCatch == "resolved"

\* const currentState = this.loadState() || this.getEmptyState();
SaveFromScratch(loaded) == GetEmptyState
SaveCurrentState(loaded) ==
  IF loaded.t = "null" THEN GetEmptyState ELSE loaded

\* performSave() returns: its promise is stored in writeLock and the owner
\* suspends at `await this.writeLock`
SaveReturns(threw) ==
  /\ save' = NoSave
  /\ writeLock' = IF threw THEN PerformSaveCatch ELSE "resolved"
  /\ procs' = [procs EXCEPT ![save.owner] = "awaitSave"]
  /\ microtasks' = Append(microtasks, save.owner)
  /\ flushLog' = [flushLog EXCEPT
                    !.result = IF threw THEN "failed" ELSE "ok"]

\* this.pendingUpdates = []
PendingKept(pend) == pend
PendingCleared(pend) == <<>>

\* a pending entry that is no object (scheduleAutoSave(null)): reading
\* update.workingDirectories in the loop of mergeUpdates throws
NullUpdate == [t |-> "null"]
IllShaped(update) == "workingDirectories" \notin DOMAIN update
MergeThrows(updates) == \E i \in DOMAIN updates : IllShaped(updates[i])

\* const currentState = this.loadState() || this.getEmptyState();
\* const mergedState = this.mergeUpdates(currentState, this.pendingUpdates);
\*   -- throws: control passes to the catch block, pendingUpdates is not
\*      reassigned
SaveMergeThrows ==
  /\ save.pc = "load"
  /\ MergeThrows(pendingUpdates)
  /\ \E o \in LoadStateOutcomes(primary, backup, failures < MaxFailures) :
       /\ primary' = o.primary
       /\ failures' = IF o.failed THEN Fail(failures) ELSE failures
  /\ SaveReturns(TRUE)
  /\ UNCHANGED <<backup, tmp, pendingUpdates, debounce, isWriting, expected,
                 nUpdates, lastLoad, nLoads, others, clock, callMark>>

\* const currentState = this.loadState() || this.getEmptyState();
\* const mergedState = this.mergeUpdates(currentState, this.pendingUpdates);
\* this.pendingUpdates = [];
\* mergedState.lastUpdated = new Date().toISOString();
SaveLoadMerge ==
  /\ save.pc = "load"
  /\ ~MergeThrows(pendingUpdates)
  /\ \E o \in LoadStateOutcomes(primary, backup, failures < MaxFailures) :
       LET currentState == SaveCurrentState(o.state)
           mergedState == MergeUpdates(currentState, pendingUpdates)
       IN /\ primary' = o.primary
          /\ pendingUpdates' = PendingCleared(pendingUpdates)
          /\ callMark' = StillPending(callMark, pendingUpdates')
          /\ clock' = clock + 1
          /\ save' = [save EXCEPT !.pc = "write", !.merged = mergedState]
          /\ flushLog' = [flushLog EXCEPT !.current = currentState,
                                          !.merged = mergedState,
                                          !.lastUpdated = Now(clock'),
                                          !.threw = o.failed]
          /\ failures' = IF o.failed THEN Fail(failures) ELSE failures
  /\ UNCHANGED <<backup, tmp, debounce, isWriting, writeLock, procs,
                 microtasks, expected, nUpdates, lastLoad, nLoads, others>>

\* fs.writeFileSync(tempPath, JSON.stringify(mergedState, null, 2), 'utf8')
SaveWriteTempAfterBackup ==
  /\ save.pc = "write"
  /\ \/ /\ tmp' = WithLastUpdated(Stringify(save.merged), Now(clock))
        /\ save' = [save EXCEPT !.pc = "backup"]
        /\ UNCHANGED <<backup, writeLock, procs, microtasks, flushLog,
                       failures>>
     \/ /\ failures < MaxFailures
        /\ tmp' \in {tmp, TextFile(NotJson)}
        /\ backup' = IF CanCopy(primary, backup) THEN primary ELSE backup
        /\ failures' = Fail(failures)
        /\ SaveReturns(TRUE)
  /\ UNCHANGED <<primary, pendingUpdates, debounce, isWriting,
                 expected, nUpdates, lastLoad, nLoads, others, clock, callMark>>
SaveWriteTemp ==
  /\ save.pc = "write"
  /\ \/ /\ tmp' = WithLastUpdated(Stringify(save.merged), Now(clock))
        /\ save' = [save EXCEPT !.pc = "backup"]
        /\ UNCHANGED <<writeLock, procs, microtasks, flushLog, failures>>
     \/ /\ failures < MaxFailures
        /\ tmp' \in {tmp, TextFile(NotJson)}
        /\ failures' = Fail(failures)
        /\ SaveReturns(TRUE)
  /\ UNCHANGED <<primary, backup, pendingUpdates, debounce, isWriting,
                 expected, nUpdates, lastLoad, nLoads, others, clock, callMark>>

\* if (fs.existsSync(this.filePath)) fs.copyFileSync(filePath, backupPath)
SaveBackup ==
  /\ save.pc = "backup"
  /\ \/ /\ ~ExistsSync(primary)
        /\ save' = [save EXCEPT !.pc = "rename"]
        /\ UNCHANGED <<backup, writeLock, procs, microtasks, flushLog,
                       failures>>
     \/ /\ ExistsSync(primary)
        /\ CanCopy(primary, backup)
        /\ backup' = primary
        /\ save' = [save EXCEPT !.pc = "rename"]
        /\ UNCHANGED <<writeLock, procs, microtasks, flushLog, failures>>
     \/ /\ ExistsSync(primary)
        /\ ~CanCopy(primary, backup) \/ failures < MaxFailures
        /\ backup' \in CopyFailResults(backup)
        /\ failures' = Fail(failures)
        /\ SaveReturns(TRUE)
  /\ UNCHANGED <<primary, tmp, pendingUpdates, debounce, isWriting,
                 expected, nUpdates, lastLoad, nLoads, others, clock, callMark>>

\* fs.renameSync(tempPath, this.filePath)
SaveRenameInPlace ==
  /\ save.pc = "rename"
  /\ \/ /\ CanRename(tmp, primary)
        /\ primary' = tmp
        /\ tmp' = Missing
        /\ SaveReturns(FALSE)
        /\ UNCHANGED failures
     \/ /\ ~CanRename(tmp, primary) \/ failures < MaxFailures
        /\ failures' = Fail(failures)
        /\ SaveReturns(TRUE)
        /\ primary' = IF primary.kind = "dir" THEN primary
                                              ELSE TextFile(NotJson)
        /\ UNCHANGED tmp
  /\ UNCHANGED <<backup, pendingUpdates, debounce, isWriting, expected,
                 nUpdates, lastLoad, nLoads, others, clock, callMark>>
SaveRename ==
  /\ save.pc = "rename"
  /\ \/ /\ CanRename(tmp, primary)
        /\ primary' = tmp
        /\ tmp' = Missing
        /\ SaveReturns(FALSE)
        /\ UNCHANGED failures
     \/ /\ ~CanRename(tmp, primary) \/ failures < MaxFailures
        /\ failures' = Fail(failures)
        /\ SaveReturns(TRUE)
        /\ UNCHANGED <<primary, tmp>>
  /\ UNCHANGED <<backup, pendingUpdates, debounce, isWriting, expected,
                 nUpdates, lastLoad, nLoads, others, clock, callMark>>

Next ==
  \/ \E u \in Updates : ScheduleAutoSave(u)
  \/ \E a \in ForceSaveArgs : ForceSave(a)
  \/ TimerFires
  \/ ResumeAwait
  \/ SaveLoadMerge
  \/ SaveWriteTemp
  \/ SaveBackup
  \/ SaveRename

Spec == Init /\ [][Next]_vars

\* ------------------------------------------------- the queue, with time
\* The same queue on a clock that counts seconds: a timer fires only once
\* its delay has passed. The run starts on a valid state file and backup.
InitTimed ==
  /\ Init
  /\ primary = GoodFile
  /\ backup = OldFile

NextTimed ==
  \/ \E u \in Updates : ScheduleAutoSave(u)
  \/ \E a \in ForceSaveArgs : ForceSave(a)
  \/ Tick
  \/ TimerDue
  \/ ResumeAwait
  \/ SaveLoadMerge
  \/ SaveWriteTemp
  \/ SaveBackup
  \/ SaveRename

SpecTimed == InitTimed /\ [][NextTimed]_vars

\* ------------------------------------- the queue left to its timer alone
\* No forceSave is ever called. The event loop is fair: time passes, a
\* due timer's callback is run, the job queue is drained and the
\* synchronous body of performSave runs to its end.
NextLive ==
  \/ \E u \in Updates : ScheduleAutoSave(u)
  \/ Tick
  \/ TimerDue
  \/ ResumeAwait
  \/ SaveLoadMerge
  \/ SaveWriteTemp
  \/ SaveBackup
  \/ SaveRename

EventLoop ==
  /\ WF_vars(Tick)
  /\ WF_vars(TimerDue)
  /\ WF_vars(ResumeAwait)
  /\ WF_vars(SaveLoadMerge)
  /\ WF_vars(SaveWriteTemp)
  /\ WF_vars(SaveBackup)
  /\ WF_vars(SaveRename)

SpecLive == InitTimed /\ [][NextLive]_vars /\ EventLoop

\* --------------------------------------------- an entry that is no object
\* scheduleAutoSave(null as any): the entry is pushed and the timer armed
\* as for any update
ScheduleIllShaped ==
  /\ JsIdle
  /\ nUpdates < MaxUpdates
  /\ pendingUpdates' = Push(pendingUpdates, NullUpdate)
  /\ saveTimeout' = "armed"
  /\ timers' = RearmTimer(timers, nUpdates + 1)
  /\ quiet' = 0
  /\ nUpdates' = nUpdates + 1
  /\ UNCHANGED <<disk, isWriting, writeLock, procs, microtasks, save,
                 expected, failures, flushLog, lastLoad, nLoads, others,
                 clock, callMark>>

NextPoison ==
  \/ \E u \in Updates : ScheduleAutoSave(u)
  \/ ScheduleIllShaped
  \/ \E a \in ForceSaveArgs : ForceSave(a)
  \/ TimerFires
  \/ ResumeAwait
  \/ SaveLoadMerge
  \/ SaveMergeThrows
  \/ SaveWriteTemp
  \/ SaveBackup
  \/ SaveRename

SpecPoison == InitTimed /\ [][NextPoison]_vars

\* ------------------------------------------- requests and the write guard
\* forceSave called at any moment, with or without a fragment. The job
\* queue is drained and the synchronous body of performSave runs to its
\* end.
NextGuard ==
  \/ \E a \in ForceSaveArgs : ForceSave(a)
  \/ ResumeAwait
  \/ SaveLoadMerge
  \/ SaveWriteTemp
  \/ SaveBackup
  \/ SaveRename

JobQueue ==
  /\ WF_vars(ResumeAwait)
  /\ WF_vars(SaveLoadMerge)
  /\ WF_vars(SaveWriteTemp)
  /\ WF_vars(SaveBackup)
  /\ WF_vars(SaveRename)

SpecGuard == InitTimed /\ [][NextGuard]_vars /\ JobQueue

\* ---------------------------------------------------- loadState, directly
\* loadState() called by a producer (startup hydration, getStats)
LoadState ==
  /\ JsIdle
  /\ nLoads < MaxLoads
  /\ \E o \in LoadStateOutcomes(primary, backup, failures < MaxFailures) :
       /\ primary' = o.primary
       /\ lastLoad' = [called |-> TRUE, prePrimary |-> primary,
                       preBackup |-> backup, state |-> o.state,
                       from |-> o.from]
       /\ failures' = IF o.failed THEN Fail(failures) ELSE failures
  /\ nLoads' = nLoads + 1
  /\ UNCHANGED <<backup, tmp, manager, procs, microtasks, save, expected,
                 nUpdates, flushLog, others, clock, callMark>>

\* on-disk contents a start can find: every shape loadAndValidateFile
\* distinguishes
NoDirsFile  == TextFile(JsonObject("1.0.0", FAbsent, FMap("k1" :> "v1")))
NoVersFile  == TextFile(JsonObject("", FMap(Cfg1), FAbsent))
BadDirsFile == TextFile(JsonObject("1.0.0", FString, FMap(EmptyMap)))
BadSessFile == TextFile(JsonObject("0.9.0", FMap(Cfg1), FString))
V09File     == TextFile(JsonObject("0.9.0", FMap(Cfg2), FMap("k2" :> "v1")))

LoadFiles ==
  { Missing, Directory, TextFile(NotJson), TextFile(JsonNull),
    TextFile(JsonScalar), NoDirsFile, NoVersFile, BadDirsFile, BadSessFile,
    V09File, GoodFile, OldFile }

InitLoad ==
  /\ primary \in LoadFiles
  /\ backup \in LoadFiles
  /\ tmp = Missing
  /\ pendingUpdates = <<>>
  /\ saveTimeout = "null"
  /\ timers = NoTimers
  /\ quiet = 0
  /\ isWriting = FALSE
  /\ writeLock = "null"
  /\ procs = [p \in Procs |-> "unused"]
  /\ microtasks = <<>>
  /\ save = NoSave
  /\ expected = InitialState(primary, backup)
  /\ failures = 0
  /\ nUpdates = 0
  /\ flushLog = NoFlush
  /\ lastLoad = NoLoad
  /\ nLoads = 0
  /\ mergeCall = NoMerge
  /\ InitOthers
  /\ configs = EmptyMap

NextLoad == LoadState

SpecLoad == InitLoad /\ [][NextLoad]_vars

\* ------------------------------------------------- mergeUpdates, directly
MergeFields ==
  { FMap(EmptyMap),
    FMap(Cfg1), FMap(Cfg2), FMap("k2" :> "v1"),
    FMap("k1" :> Null), FMap("k1" :> Undef),
    FMap(REPLACE_ALL :> TrueV), FMap(Sweep),
    FMap((REPLACE_ALL :> Null) @@ Cfg1) }

MergeFragments ==
  {StateUpdate(f, FAbsent) : f \in MergeFields} \cup
  {StateUpdate(FAbsent, f) : f \in MergeFields} \cup
  {StateUpdate(f, f) : f \in MergeFields}

MergeBases ==
  { GetEmptyState, BotState("1.0.0", "k2" :> "v2", Cfg1 @@ ("k2" :> "v2")) }

Batches == UNION {[1..n -> MergeFragments] : n \in 0..MaxBatch}

InitMerge ==
  /\ primary = Missing
  /\ backup = Missing
  /\ tmp = Missing
  /\ pendingUpdates = <<>>
  /\ saveTimeout = "null"
  /\ timers = NoTimers
  /\ quiet = 0
  /\ isWriting = FALSE
  /\ writeLock = "null"
  /\ procs = [p \in Procs |-> "unused"]
  /\ microtasks = <<>>
  /\ save = NoSave
  /\ expected = GetEmptyState
  /\ failures = 0
  /\ nUpdates = 0
  /\ flushLog = NoFlush
  /\ lastLoad = NoLoad
  /\ nLoads = 0
  /\ mergeCall \in {[called |-> FALSE, state |-> b, updates |-> us] :
                      b \in MergeBases, us \in Batches}
  /\ InitOthers
  /\ configs = EmptyMap

\* mergeUpdates(currentState, updates)
CallMergeUpdates ==
  /\ ~mergeCall.called
  /\ "state" \in DOMAIN mergeCall
  /\ mergeCall' = [called |-> TRUE, state |-> mergeCall.state,
                   updates |-> mergeCall.updates,
                   result |-> MergeUpdates(mergeCall.state, mergeCall.updates)]
  /\ UNCHANGED <<disk, manager, procs, microtasks, save, history, clock,
                 callMark, lastStats, health, wdm, handler>>

NextMerge == CallMergeUpdates

SpecMerge == InitMerge /\ [][NextMerge]_vars

\* ------------------------------------------------------ getStats, directly
\* the state the counts are taken from: what loadState() returned
StatsOfPending(loaded, pend) == MergeUpdates(loaded, pend)
StatsSnapshot(loaded, pend) == loaded

\* state.lastUpdated of an outcome o of loadState() on primary p, backup b
LoadedLastUpdated(o, p, b, now) ==
  IF o.from = "main" THEN LastUpdatedOf(p, now)
  ELSE IF o.from = "backup" THEN LastUpdatedOf(b, now)
  ELSE now

\* getStats()
GetStats ==
  /\ JsIdle
  /\ nLoads < MaxLoads
  /\ clock' = clock + 1
  /\ \E o \in LoadStateOutcomes(primary, backup, failures < MaxFailures) :
       LET state == StatsSnapshot(o.state, pendingUpdates) IN
       /\ primary' = o.primary
       /\ lastStats' =
            [called |-> TRUE, prePrimary |-> primary, preBackup |-> backup,
             pending |-> Len(pendingUpdates), now |-> Now(clock'),
             workingDirs |-> Cardinality(DOMAIN state.workingDirectories),
             sessions |-> Cardinality(DOMAIN state.sessions),
             fileExists |-> ExistsSync(o.primary),
             lastUpdated |-> LoadedLastUpdated(o, primary, backup, Now(clock'))]
       /\ failures' = IF o.failed THEN Fail(failures) ELSE failures
  /\ nLoads' = nLoads + 1
  /\ UNCHANGED <<backup, tmp, manager, procs, microtasks, save, expected,
                 nUpdates, flushLog, lastLoad, mergeCall, callMark, health,
                 wdm, handler>>

NextStats ==
  \/ \E u \in Updates : ScheduleAutoSave(u)
  \/ GetStats

SpecStats == InitLoad /\ [][NextStats]_vars

\* ----------------------------------------------------- isHealthy, directly
\* the probe as writeFileSync(testPath, '{}') leaves it
ProbeFile == TextFile(JsonObject("", FAbsent, FAbsent))

\* the sibling paths of the state file
BackupPath(filePath) == filePath \o ".backup"
TempPath(filePath)   == filePath \o ".tmp"
TestPath(filePath)   == filePath \o ".test"

\* outcomes of the two file operations of the probe
ProbeIO == {"ok", "writeFails", "unlinkFails"}

\* isHealthy()
IsHealthyTrusting(io) ==
  /\ lastHealth' = [called |-> TRUE, prePrimary |-> primary,
                    preDir |-> dataDir, preTest |-> testFile,
                    probe |-> "none", result |-> TRUE,
                    prevBlocked |-> FALSE]
  /\ UNCHANGED testFile
IsHealthyNoUnlink(io) ==
  /\ lastHealth' = [called |-> TRUE, prePrimary |-> primary,
                    preDir |-> dataDir, preTest |-> testFile,
                    probe |-> "deleted",
                    result |-> dataDir = "dir" /\ primary.kind # "dir"
                               /\ testFile.kind # "dir",
                    prevBlocked |-> FALSE]
  /\ testFile' = IF dataDir = "dir" /\ primary.kind # "dir"
                    /\ testFile.kind # "dir"
                 THEN ProbeFile ELSE testFile
IsHealthy(io) ==
  LET log(probe, result) ==
        [called |-> TRUE, prePrimary |-> primary, preDir |-> dataDir,
         preTest |-> testFile, probe |-> probe, result |-> result,
         prevBlocked |-> /\ lastHealth.called
                         /\ lastHealth.prePrimary.kind = "dir"
                         /\ ~lastHealth.result]
  IN IF ExistsSync(primary) /\ primary.kind = "dir"
     THEN lastHealth' = log("none", FALSE) /\ UNCHANGED testFile
     ELSE IF dataDir = "missing"
     THEN lastHealth' = log("none", FALSE) /\ UNCHANGED testFile
     ELSE IF dataDir # "dir"
     THEN lastHealth' = log("none", FALSE) /\ UNCHANGED testFile
     ELSE IF testFile.kind = "dir" \/ io = "writeFails"
     THEN lastHealth' = log("writeFailed", FALSE) /\ UNCHANGED testFile
     ELSE IF io = "unlinkFails"
     THEN lastHealth' = log("unlinkFailed", FALSE) /\ testFile' = ProbeFile
     ELSE lastHealth' = log("deleted", TRUE) /\ testFile' = Missing

CallIsHealthy ==
  /\ JsIdle
  /\ \E io \in ProbeIO : IsHealthy(io)
  /\ UNCHANGED <<disk, manager, procs, microtasks, save, history, mergeCall,
                 clock, callMark, lastStats, dataDir, wdm, handler>>

\* fs.mkdirSync(filePath): a directory is put where the state file belongs
MkdirAtPath ==
  /\ dataDir = "dir"
  /\ primary = Missing
  /\ primary' = Directory
  /\ UNCHANGED <<backup, tmp, manager, procs, microtasks, save, history,
                 others, clock, callMark>>

\* the containing directory is created / removed with all it holds
MkdirDataDir ==
  /\ dataDir = "missing"
  /\ dataDir' = "dir"
  /\ UNCHANGED <<disk, testFile, lastHealth, manager, procs, microtasks,
                 save, history, mergeCall, lastStats, wdm, clock, callMark,
                 handler>>

RmDataDir ==
  /\ dataDir = "dir"
  /\ dataDir' = "missing"
  /\ primary' = Missing
  /\ backup' = Missing
  /\ tmp' = Missing
  /\ testFile' = Missing
  /\ UNCHANGED <<lastHealth, manager, procs, microtasks, save,
                 history, mergeCall, lastStats, wdm, clock, callMark, handler>>

\* fs.rmSync(filePath, { recursive: true }): the path is free again
RmAtPath ==
  /\ primary = Directory
  /\ primary' = Missing
  /\ UNCHANGED <<backup, tmp, manager, procs, microtasks, save, history,
                 others, clock, callMark>>

InitHealth ==
  /\ dataDir \in {"dir", "missing", "file"}
  /\ primary \in IF dataDir = "dir"
                 THEN {Missing, Directory, TextFile(NotJson), GoodFile}
                 ELSE {Missing}
  /\ testFile \in IF dataDir = "dir" THEN {Missing, Directory, ProbeFile}
                  ELSE {Missing}
  /\ backup \in IF dataDir = "dir" THEN {Missing, OldFile} ELSE {Missing}
  /\ tmp \in IF dataDir = "dir" THEN {Missing, TextFile(NotJson)}
             ELSE {Missing}
  /\ pendingUpdates = <<>>
  /\ saveTimeout = "null"
  /\ timers = NoTimers
  /\ quiet = 0
  /\ isWriting = FALSE
  /\ writeLock = "null"
  /\ procs = [p \in Procs |-> "unused"]
  /\ microtasks = <<>>
  /\ save = NoSave
  /\ expected = InitialState(primary, backup)
  /\ failures = 0
  /\ nUpdates = 0
  /\ flushLog = NoFlush
  /\ lastLoad = NoLoad
  /\ nLoads = 0
  /\ mergeCall = NoMerge
  /\ clock = 0
  /\ callMark = [p \in Procs |-> 0]
  /\ lastStats = NoStats
  /\ lastHealth = NoHealth
  /\ wdmLog = NoRestart
  /\ configs = EmptyMap
  /\ sessions = EmptyMap
  /\ lastCleanup = NoCleanup

NextHealth ==
  \/ CallIsHealthy
  \/ MkdirAtPath
  \/ RmAtPath
  \/ MkdirDataDir
  \/ RmDataDir

SpecHealth == InitHealth /\ [][NextHealth]_vars

\* ------------------------------------------- WorkingDirectoryManager
\* loadPersistedConfigs(): configs.set(key, config) for every entry loaded
Hydrate(state) == state.workingDirectories

UsedProcs == {p \in Procs : procs[p] # "unused"}

\* setWorkingDirectory(): configs.set(key, config); saveConfigState(key, config)
SetWorkingDirectory(key, config) ==
  /\ ~wdmLog.restarted
  /\ configs' = (key :> config) @@ configs
  /\ Enqueue(StateUpdate(FMap(key :> config), FAbsent))
  /\ wdmLog' = [wdmLog EXCEPT !.calls = Cardinality(UsedProcs)]
  /\ UNCHANGED <<disk, isWriting, writeLock, procs, microtasks, save,
                 failures, flushLog, lastLoad, nLoads, mergeCall, lastStats,
                 health, clock, callMark, handler>>

\* removeWorkingDirectory(): configs.delete(key), and nothing else
RemoveWorkingDirectory(key) ==
  /\ JsIdle
  /\ ~wdmLog.restarted
  /\ key \in DOMAIN configs
  /\ configs' = Without(configs, key)
  /\ wdmLog' = [wdmLog EXCEPT !.calls = Cardinality(UsedProcs)]
  /\ UNCHANGED <<disk, manager, procs, microtasks, save, history, mergeCall,
                 lastStats, health, clock, callMark, handler>>

\* The process ends with nothing pending and every flush request settled,
\* and a new one starts: a new PersistenceManager, and a new
\* WorkingDirectoryManager whose constructor hydrates configs from
\* loadState(). One restart is followed; the run is not explored past it.
Restart ==
  /\ JsIdle
  /\ ~wdmLog.restarted
  /\ ~isWriting /\ microtasks = <<>>
  /\ pendingUpdates = <<>> /\ saveTimeout # "armed"
  /\ \E o \in LoadStateOutcomes(primary, backup, failures < MaxFailures) :
       /\ primary' = o.primary
       /\ configs' = Hydrate(o.state)
       /\ failures' = IF o.failed THEN Fail(failures) ELSE failures
       /\ wdmLog' = [restarted |-> TRUE, calls |-> wdmLog.calls,
                     before |-> configs, after |-> Hydrate(o.state),
                     flushed |-> /\ pendingUpdates = <<>>
                                 /\ failures' = 0
                                 /\ Cardinality(UsedProcs) > wdmLog.calls
                                 /\ \A p \in UsedProcs : procs[p] = "resolved"]
  /\ pendingUpdates' = <<>>
  /\ saveTimeout' = "null"
  /\ timers' = NoTimers
  /\ quiet' = 0
  /\ UNCHANGED <<backup, tmp, isWriting, writeLock, procs, microtasks, save,
                 expected, nUpdates, flushLog, lastLoad, nLoads, mergeCall,
                 lastStats, health, clock, callMark, handler>>

InitWdm ==
  /\ backup \in InitBackup
  /\ primary \in {(CHOOSE o \in LoadStateOutcomes(p0, backup, FALSE) :
                     TRUE).primary : p0 \in InitPrimary}
  /\ configs = Hydrate(InitialState(primary, backup))
  /\ tmp = Missing
  /\ pendingUpdates = <<>>
  /\ saveTimeout = "null"
  /\ timers = NoTimers
  /\ quiet = 0
  /\ isWriting = FALSE
  /\ writeLock = "null"
  /\ procs = [p \in Procs |-> "unused"]
  /\ microtasks = <<>>
  /\ save = NoSave
  /\ expected = InitialState(primary, backup)
  /\ failures = 0
  /\ nUpdates = 0
  /\ flushLog = NoFlush
  /\ lastLoad = NoLoad
  /\ nLoads = 0
  /\ mergeCall = NoMerge
  /\ InitOthers

NextWdm ==
  \/ \E k \in Keys, c \in Recs : SetWorkingDirectory(k, c)
  \/ \E k \in Keys : RemoveWorkingDirectory(k)
  \/ ForceSave([given |-> FALSE])
  \/ TimerFires
  \/ ResumeAwait
  \/ SaveLoadMerge
  \/ SaveWriteTemp
  \/ SaveBackup
  \/ SaveRename
  \/ Restart

SpecWdm == InitWdm /\ [][NextWdm]_vars

\* ------------------------------------------- ClaudeHandler's sessions
\* A session record is its lastActivity; seconds count from 0.
\* session.lastActivity.toISOString()
ToISOString(t) == Now(t)
\* new Date(session.lastActivity).getTime()
GetTime(str) == CHOOSE t \in 0..(MaxTime + MaxCalls + 1) : ToISOString(t) = str

MaxAges == {1, 2}

\* the for loop of cleanupOldSessions: the sessions it keeps
\*   if (now - lastActivity < maxAge) cleanedSessions[key] = session;
KeptUpToMaxAge(stored, now, maxAge) ==
  [k \in {x \in DOMAIN stored : now - GetTime(stored[x]) <= maxAge} |->
     stored[k]]
KeptSessions(stored, now, maxAge) ==
  [k \in {x \in DOMAIN stored : now - GetTime(stored[x]) < maxAge} |->
     stored[k]]

\* what cleanupOldSessions hands to scheduleAutoSave, state being what
\* loadState() returned:  if (removedCount > 0) scheduleAutoSave(...)
CleanupFragments(state, now, maxAge) ==
  IF state.t = "null" THEN <<>>
  ELSE LET kept == KeptSessions(state.sessions, now, maxAge) IN
       IF DOMAIN kept # DOMAIN state.sessions
       THEN <<StateUpdate(FAbsent, FMap((REPLACE_ALL :> TrueV) @@ kept))>>
       ELSE <<>>

\* scheduleAutoSave called for each fragment of a list in turn by one
\* synchronous caller; none when the list is empty
EnqueueAll(updates) ==
  /\ JsIdle
  /\ nUpdates < MaxUpdates
  /\ pendingUpdates' = pendingUpdates \o updates
  /\ IF updates = <<>> THEN UNCHANGED debounce
     ELSE /\ saveTimeout' = "armed"
          /\ timers' = RearmTimer(timers, nUpdates + 1)
          /\ quiet' = 0
  /\ expected' = MergeUpdates(expected, updates)
  /\ nUpdates' = nUpdates + 1

\* cleanupOldSessions(maxAge)
CleanupOldSessions(maxAge) ==
  /\ \E o \in LoadStateOutcomes(primary, backup, failures < MaxFailures) :
       LET frags == CleanupFragments(o.state, clock, maxAge) IN
       /\ primary' = o.primary
       /\ failures' = IF o.failed THEN Fail(failures) ELSE failures
       /\ EnqueueAll(frags)
       /\ lastCleanup' = [called |-> TRUE, state |-> o.state,
                          now |-> clock, maxAge |-> maxAge,
                          fragments |-> frags]
  /\ UNCHANGED <<backup, tmp, isWriting, writeLock, procs, microtasks, save,
                 flushLog, lastLoad, nLoads, clock, callMark, mergeCall,
                 lastStats, health, wdm, sessions>>

\* createSession(): sessions.set(key, session); saveSessionState(key, session)
CreateSession(key) ==
  /\ key \notin DOMAIN sessions
  /\ sessions' = (key :> ToISOString(clock)) @@ sessions
  /\ Enqueue(StateUpdate(FAbsent, FMap(key :> ToISOString(clock))))
  /\ UNCHANGED <<disk, isWriting, writeLock, procs, microtasks, save,
                 failures, flushLog, lastLoad, nLoads, clock, callMark,
                 mergeCall, lastStats, health, wdm, lastCleanup>>

\* updateSessionActivity(key), for a session the handler holds
UpdateSessionActivity(key) ==
  /\ key \in DOMAIN sessions
  /\ sessions' = [sessions EXCEPT ![key] = ToISOString(clock)]
  /\ Enqueue(StateUpdate(FAbsent, FMap(key :> ToISOString(clock))))
  /\ UNCHANGED <<disk, isWriting, writeLock, procs, microtasks, save,
                 failures, flushLog, lastLoad, nLoads, clock, callMark,
                 mergeCall, lastStats, health, wdm, lastCleanup>>

\* the removeSession(key) fragments for a set of keys, in any one order
RECURSIVE Removals(_)
Removals(keys) ==
  IF keys = {} THEN <<>>
  ELSE LET k == CHOOSE x \in keys : TRUE
       IN <<StateUpdate(FAbsent, FMap(k :> Null))>> \o Removals(keys \ {k})

\* cleanupInactiveSessions(maxAge): delete and removeSession() each session
\* idle for more than maxAge; if (cleaned > 0) cleanupOldSessions(maxAge)
CleanupInactiveSessions(maxAge) ==
  LET stale == {k \in DOMAIN sessions :
                  clock - GetTime(sessions[k]) > maxAge}
  IN /\ sessions' = [k \in DOMAIN sessions \ stale |-> sessions[k]]
     /\ IF stale = {}
        THEN /\ JsIdle
             /\ UNCHANGED <<primary, failures, lastCleanup, pendingUpdates,
                            debounce, expected, nUpdates>>
        ELSE \E o \in LoadStateOutcomes(primary, backup,
                                        failures < MaxFailures) :
               LET frags == CleanupFragments(o.state, clock, maxAge) IN
               /\ primary' = o.primary
               /\ failures' = IF o.failed THEN Fail(failures) ELSE failures
               /\ EnqueueAll(Removals(stale) \o frags)
               /\ lastCleanup' = [called |-> TRUE, state |-> o.state,
                                  now |-> clock, maxAge |-> maxAge,
                                  fragments |-> frags]
     /\ UNCHANGED <<backup, tmp, isWriting, writeLock, procs, microtasks,
                    save, flushLog, lastLoad, nLoads, clock, callMark,
                    mergeCall, lastStats, health, wdm>>

\* a second passes with the process idle
TimePasses ==
  /\ JsIdle
  /\ clock < MaxTime
  /\ clock' = clock + 1
  /\ UNCHANGED <<disk, manager, procs, microtasks, save, history, callMark,
                 mergeCall, lastStats, health, wdm, handler>>

\* sessions k1 and k2, last active at seconds 0 and 1
SessionsFile ==
  WithLastUpdated(
    Stringify(BotState("1.0.0", EmptyMap,
                       ("k1" :> ToISOString(0)) @@ ("k2" :> ToISOString(1)))),
    T0)

\* the ClaudeHandler constructor at second 1: loadPersistedSessions();
\* no file operation fails for an external reason in these runs
InitSessions ==
  /\ primary \in {Missing, SessionsFile}
  /\ backup = Missing
  /\ tmp = Missing
  /\ pendingUpdates = <<>>
  /\ saveTimeout = "null"
  /\ timers = NoTimers
  /\ quiet = 0
  /\ isWriting = FALSE
  /\ writeLock = "null"
  /\ procs = [p \in Procs |-> "unused"]
  /\ microtasks = <<>>
  /\ save = NoSave
  /\ expected = InitialState(primary, backup)
  /\ failures = MaxFailures
  /\ nUpdates = 0
  /\ flushLog = NoFlush
  /\ lastLoad = NoLoad
  /\ nLoads = 0
  /\ mergeCall = NoMerge
  /\ clock = 1
  /\ callMark = [p \in Procs |-> 0]
  /\ lastStats = NoStats
  /\ dataDir = "dir"
  /\ testFile = Missing
  /\ lastHealth = NoHealth
  /\ wdmLog = NoRestart
  /\ configs = EmptyMap
  /\ sessions = InitialState(primary, backup).sessions
  /\ lastCleanup = NoCleanup

NextSessions ==
  \/ \E k \in Keys : CreateSession(k)
  \/ \E k \in Keys : UpdateSessionActivity(k)
  \/ \E a \in MaxAges : CleanupInactiveSessions(a)
  \/ \E a \in MaxAges : CleanupOldSessions(a)
  \/ TimePasses
  \/ ForceSave([given |-> FALSE])
  \/ TimerFires
  \/ ResumeAwait
  \/ SaveLoadMerge
  \/ SaveWriteTemp
  \/ SaveBackup
  \/ SaveRename

SpecSessions == InitSessions /\ [][NextSessions]_vars

\* ClaudeHandler as the only producer of session fragments
NextHandler ==
  \/ \E k \in Keys : CreateSession(k)
  \/ \E k \in Keys : UpdateSessionActivity(k)
  \/ \E a \in MaxAges : CleanupInactiveSessions(a)
  \/ TimePasses
  \/ ForceSave([given |-> FALSE])
  \/ TimerFires
  \/ ResumeAwait
  \/ SaveLoadMerge
  \/ SaveWriteTemp
  \/ SaveBackup
  \/ SaveRename

SpecHandler == InitSessions /\ [][NextHandler]_vars

\* ------------------------------------------------------ process shutdown
\* The process stops between two tasks: start() installs no exit handler
\* and nothing calls forceSave, so the pending list, the timer and the
\* waiting flush requests die with it. A new process starts and its
\* managers call loadState(). One shutdown is followed; the run is not
\* explored past it.
Shutdown ==
  /\ JsIdle
  /\ ~wdmLog.restarted
  /\ \E o \in LoadStateOutcomes(primary, backup, failures < MaxFailures) :
       /\ primary' = o.primary
       /\ lastLoad' = [called |-> TRUE, prePrimary |-> primary,
                       preBackup |-> backup, state |-> o.state,
                       from |-> o.from]
       /\ configs' = Hydrate(o.state)
       /\ failures' = IF o.failed THEN Fail(failures) ELSE failures
       /\ wdmLog' = [restarted |-> TRUE, calls |-> wdmLog.calls,
                     before |-> configs, after |-> Hydrate(o.state),
                     flushed |-> /\ pendingUpdates = <<>>
                                 /\ ~isWriting
                                 /\ failures' = 0]
  /\ pendingUpdates' = <<>>
  /\ saveTimeout' = "null"
  /\ timers' = NoTimers
  /\ quiet' = 0
  /\ isWriting' = FALSE
  /\ writeLock' = "null"
  /\ procs' = [p \in Procs |-> IF procs[p] \in {"unused", "resolved",
                                                 "rejected"}
                                THEN procs[p] ELSE "gone"]
  /\ microtasks' = <<>>
  /\ UNCHANGED <<backup, tmp, save, expected, nUpdates, flushLog, nLoads,
                 mergeCall, lastStats, health, clock, callMark, handler>>

Running == ~wdmLog.restarted

NextShutdown ==
  \/ Running /\ \E u \in Updates : ScheduleAutoSave(u)
  \/ Running /\ Tick
  \/ Running /\ TimerDue
  \/ Running /\ ResumeAwait
  \/ Running /\ SaveLoadMerge
  \/ Running /\ SaveWriteTemp
  \/ Running /\ SaveBackup
  \/ Running /\ SaveRename
  \/ Shutdown

SpecShutdown == InitTimed /\ [][NextShutdown]_vars

\* ------------------------------------------------- directory key format
\* The identities <<channelId, threadTs, userId>> setWorkingDirectory is
\* called with: a channel default, a thread override, an assignment in a
\* direct-message channel, and a user's call in a public channel outside
\* a thread. A Slack id is a first character and the rest; an optional
\* argument that is left out is undefined.
Identities ==
  { <<<<"C", "1">>, Undef, Undef>>,
    <<<<"C", "1">>, "17.5", "U1">>,
    <<<<"D", "1">>, Undef, "U1">>,
    <<<<"C", "2">>, "", "U1">> }

Str(id) == id[1] \o id[2]
StartsWith(id, ch) == id[1] = ch
\* if (s): undefined and the empty string are falsy
Given(s) == s \notin {Undef, Null, ""}

\* getConfigKey(channelId, threadTs, userId)
GetConfigKeyColon(channelId, threadTs, userId) ==
  IF Given(threadTs) THEN Str(channelId) \o ":" \o threadTs
  ELSE IF Given(userId) /\ StartsWith(channelId, "D")
       THEN Str(channelId) \o ":" \o userId
       ELSE Str(channelId)
GetConfigKey(channelId, threadTs, userId) ==
  IF Given(threadTs) THEN Str(channelId) \o "-" \o threadTs
  ELSE IF Given(userId) /\ StartsWith(channelId, "D")
       THEN Str(channelId) \o "-" \o userId
       ELSE Str(channelId)

\* the serialized config of saveConfigState: the identity fields and the
\* directory
SerializedConfig(channelId, threadTs, userId) ==
  Str(channelId) \o "|" \o threadTs \o "|" \o userId \o "|/project"

\* setWorkingDirectory(channelId, directory, threadTs, userId) on an
\* existing directory
SetWorkingDirectoryFor(channelId, threadTs, userId) ==
  SetWorkingDirectory(GetConfigKey(channelId, threadTs, userId),
                      SerializedConfig(channelId, threadTs, userId))

\* a fresh installation: no state file yet
InitKeys ==
  /\ InitWdm
  /\ primary = Missing
  /\ backup = Missing

NextKeys ==
  \/ \E i \in Identities : SetWorkingDirectoryFor(i[1], i[2], i[3])
  \/ ForceSave([given |-> FALSE])
  \/ TimerFires
  \/ ResumeAwait
  \/ SaveLoadMerge
  \/ SaveWriteTemp
  \/ SaveBackup
  \/ SaveRename
  \/ Restart

SpecKeys == InitKeys /\ [][NextKeys]_vars

\* ================================================================ claims
\* what load() returns on the present disk when no copy fails for an
\* external reason
Loaded == {o.state : o \in LoadStateOutcomes(primary, backup, FALSE)}

Validates(f) == LoadAndValidateFile(f).t = "state"

AllSettled == \A p \in Procs : procs[p] \in {"unused", "resolved"}

\* C1: when every write has succeeded and no fragment is pending, load()
\* returns the left-to-right fold of all fragments, in the order they were
\* handed to schedule()/forceFlush(), onto the initial snapshot - whatever
\* the interleaving and however many flush cycles carried them.
C1_FoldInScheduleOrder ==
  (pendingUpdates = <<>> /\ JsIdle /\ failures = 0) => Loaded = {expected}

\* two fragments for the same key, written by two separate flush cycles
C1_Witness ==
  /\ pendingUpdates = <<>> /\ JsIdle /\ failures = 0 /\ nUpdates = 2
  /\ flushLog.result = "ok"
  /\ flushLog.prev = "ok"
  /\ flushLog.updates = <<StateUpdate(FMap(Cfg2), FAbsent)>>
  /\ flushLog.current.workingDirectories = Cfg1 @@ ("k2" :> "v1")
  /\ Loaded = {expected}

\* C2: a flush requested while another is in flight waits and flushes
\* again: once every flush request has resolved (and no timer is armed)
\* nothing is left pending, and with all writes succeeding the durable
\* snapshot reflects every fragment.
C2_OverlappingFlushKeepsAll ==
  (AllSettled /\ JsIdle /\ saveTimeout # "armed") =>
     /\ pendingUpdates = <<>>
     /\ failures = 0 => Loaded = {expected}

\* the last flush was run by a request that had waited for a running one
C2_Witness ==
  /\ AllSettled /\ JsIdle /\ failures = 0 /\ nUpdates = 2
  /\ flushLog.result = "ok"
  /\ flushLog.retry
  /\ Len(flushLog.updates) = 1
  /\ pendingUpdates = <<>>
  /\ Loaded = {expected}

\* C3: the fragments of a flush whose write attempt failed are retried:
\* after the next flush that succeeds, the durable snapshot reflects them
\* together with the later fragments, in schedule order.
C3_FailedFlushIsRetried ==
  (flushLog.result = "ok" /\ flushLog.prev = "failed" /\ ~flushLog.threw
     /\ JsIdle /\ pendingUpdates = <<>>
     /\ Validates(flushLog.prePrimary))
  => Loaded = {expected}

\* C4: at every point of a flush load() returns the snapshot from before
\* the flush or the fully merged one, and never falls back to the empty
\* snapshot when a valid primary or backup was on disk before the flush.
C4_OldOrNewSnapshot ==
  (flushLog.result # "none") =>
     LET before == InitialState(flushLog.prePrimary, flushLog.preBackup)
         after  == MergeUpdates(before, flushLog.updates)
     IN \A o \in LoadStateOutcomes(primary, backup, FALSE) :
          /\ o.state \in {before, after}
          /\ (Validates(flushLog.prePrimary) \/ Validates(flushLog.preBackup))
               => o.from \in {"main", "backup"}

\* C5: whenever the primary does not validate and the backup does, load()
\* returns the backup's snapshot.
C5_BackupIsReturned ==
  (lastLoad.called /\ ~Validates(lastLoad.prePrimary)
     /\ Validates(lastLoad.preBackup))
  => lastLoad.state = LoadAndValidateFile(lastLoad.preBackup)

\* C6: after load() has recovered a snapshot from the backup the primary
\* file equals the backup file, and the next load() reads the primary and
\* returns the same snapshot.
C6_PrimaryRepaired ==
  (lastLoad.called /\ lastLoad.from = "backup") =>
     /\ primary = backup
     /\ \A o \in LoadStateOutcomes(primary, backup, TRUE) :
          o.from = "main" /\ o.state = lastLoad.state

C6_Witness ==
  /\ lastLoad.called /\ lastLoad.from = "backup"
  /\ lastLoad.prePrimary = TextFile(NotJson)
  /\ lastLoad.preBackup = OldFile
  /\ primary = OldFile

\* C7: a flush that finds an invalid primary and a valid backup, and whose
\* file operations all succeed, merges the pending fragments onto the
\* backup's snapshot: load() then returns the backup's records together
\* with the flushed ones.
C7_FlushMergesOntoBackup ==
  (flushLog.result = "ok" /\ ~flushLog.threw /\ JsIdle
     /\ ~Validates(flushLog.prePrimary) /\ Validates(flushLog.preBackup))
  => Loaded = {MergeUpdates(LoadAndValidateFile(flushLog.preBackup),
                            flushLog.updates)}

C7_Witness ==
  /\ flushLog.result = "ok" /\ ~flushLog.threw /\ JsIdle
  /\ flushLog.prePrimary = TextFile(NotJson)
  /\ flushLog.preBackup = OldFile
  /\ flushLog.updates = <<StateUpdate(FAbsent, FMap(Sweep))>>
  /\ Loaded = {BotState("1.0.0", Cfg2, "k2" :> "v1")}

\* C8: load() always returns a snapshot (never null, never an exception),
\* and when neither the primary nor the backup validates it returns the
\* empty snapshot: version '1.0.0', no directories, no sessions.
C8_LoadIsTotal ==
  lastLoad.called =>
     /\ lastLoad.state.t = "state"
     /\ (~Validates(lastLoad.prePrimary) /\ ~Validates(lastLoad.preBackup))
          => lastLoad.state = BotState("1.0.0", EmptyMap, EmptyMap)

C8_Witness ==
  /\ lastLoad.called
  /\ lastLoad.prePrimary = TextFile(NotJson)
  /\ lastLoad.preBackup = BadSessFile
  /\ lastLoad.state = BotState("1.0.0", EmptyMap, EmptyMap)

\* C9: no failure of the write protocol reaches the caller: no promise of
\* forceFlush() or of a timer callback rejects, and once a failed flush is
\* over the write guard is free for the next request.
C9_WriteFailuresSwallowed ==
  /\ writeLock # "rejected"
  /\ \A p \in Procs : procs[p] \notin {"rejected", "awaitLockRej"}
  /\ (flushLog.result = "failed" /\ JsIdle /\ microtasks = <<>>)
       => (~isWriting /\ writeLock = "null")

\* the target path is a directory: a flush failed, its request resolved,
\* and a later request was accepted and resolved as well
C9_Witness ==
  /\ primary = Directory
  /\ flushLog.result = "failed" /\ flushLog.prev = "failed"
  /\ procs[1] = "resolved" /\ procs[2] = "resolved"

\* C10: within one batch the last fragment wins per key: when A and B both
\* set K, folding <<A, B>> yields B's value and <<B, A>> yields A's.
SetsKey(f, k) == f.t = "map" /\ k \in DOMAIN f.m /\ ~Falsy(f.m[k])

C10_LastFragmentWins ==
  (mergeCall.called /\ Len(mergeCall.updates) = 2) =>
     LET A == mergeCall.updates[1]
         B == mergeCall.updates[2]
         swapped == MergeUpdates(mergeCall.state, <<B, A>>)
     IN \A k \in Keys :
          /\ (SetsKey(A.workingDirectories, k) /\ SetsKey(B.workingDirectories, k))
               => /\ mergeCall.result.workingDirectories[k]
                       = B.workingDirectories.m[k]
                  /\ swapped.workingDirectories[k] = A.workingDirectories.m[k]
          /\ (SetsKey(A.sessions, k) /\ SetsKey(B.sessions, k))
               => /\ mergeCall.result.sessions[k] = B.sessions.m[k]
                  /\ swapped.sessions[k] = A.sessions.m[k]

C10_Witness ==
  /\ mergeCall.called
  /\ mergeCall.updates = <<StateUpdate(FMap(Cfg1), FAbsent),
                           StateUpdate(FMap(Cfg2), FAbsent)>>
  /\ mergeCall.result.workingDirectories["k1"] = "v2"

\* C11: schedule() calls within the debounce window followed by one
\* forceFlush() - the only flush request made, no timer having fired - run
\* the write protocol exactly once, and when its writes succeed the file it
\* renamed onto the primary is the fold of all the fragments onto the
\* snapshot that was persisted before.
OneForceFlush ==
  /\ {p \in Procs : procs[p] # "unused"} = {1}
  /\ procs[1] = "resolved"
  /\ saveTimeout = "null"
  /\ nUpdates >= 1

C11_BatchWrittenOnce ==
  (OneForceFlush /\ failures = 0) =>
     /\ clock = 1
     /\ flushLog.result = "ok" /\ flushLog.prev = "none"
     /\ Len(flushLog.updates) = nUpdates
     /\ pendingUpdates = <<>>
     /\ tmp = Missing
     /\ primary = WithLastUpdated(
          Stringify(MergeUpdates(InitialState(flushLog.prePrimary,
                                              flushLog.preBackup),
                                 flushLog.updates)), flushLog.lastUpdated)
     /\ Loaded = {expected}

C11_Witness ==
  /\ OneForceFlush /\ failures = 0 /\ clock = 1
  /\ flushLog.updates = <<StateUpdate(FMap(Cfg1), FAbsent),
                          StateUpdate(FMap(Cfg2), FAbsent)>>
  /\ flushLog.prePrimary = GoodFile
  /\ Loaded = {BotState("1.0.0", ("k2" :> "v1") @@ Cfg2, "k1" :> "v2")}

\* C12: once the promise of a flush request has resolved, no fragment
\* handed over before the request was made (its own argument included) is
\* still pending: each was taken by a write attempt that is over - also
\* when the request found another flush in flight and had to wait.
C12_ResolvedMeansFlushed ==
  JsIdle => \A p \in Procs : procs[p] = "resolved" => callMark[p] = 0

\* the second request was made with a fragment while the first was in
\* flight, waited, and ran the flush that carried its fragment
C12_Witness ==
  /\ JsIdle
  /\ procs[1] = "resolved" /\ procs[2] = "resolved" /\ procs[3] = "unused"
  /\ nUpdates = 2 /\ clock = 2
  /\ flushLog.retry /\ flushLog.result = "ok"
  /\ flushLog.updates = <<StateUpdate(FMap(Cfg2), FAbsent)>>
  /\ flushLog.current.workingDirectories = Cfg1
  /\ pendingUpdates = <<>>

\* C13: a flush requested while nothing is pending starts no write
\* protocol: the protocol only ever runs on a non-empty batch, and outside
\* its steps no file - primary with its lastUpdated, backup, temp - changes.
C13_EmptyFlushWritesNothing ==
  [][ /\ save'.pc # "idle" => flushLog'.updates # <<>>
      /\ disk' # disk => save.pc # "idle"
      /\ clock' # clock => save.pc # "idle" ]_vars

\* the timer fires after a waiting request has already flushed the
\* fragment that armed it
C13_Witness ==
  /\ saveTimeout = "expired"
  /\ procs[3] = "resolved" /\ nUpdates = 2
  /\ flushLog.retry /\ flushLog.result = "ok"
  /\ clock = 2
  /\ pendingUpdates = <<>> /\ JsIdle
  /\ primary = WithLastUpdated(Stringify(flushLog.merged), Now(2))

\* C14: after a flush whose write succeeded, load() returns exactly the
\* merged snapshot the flush wrote, lastUpdated included; a record set
\* saved onto an empty state is read back unchanged.
C14_RoundTrip ==
  (flushLog.result = "ok" /\ JsIdle) =>
     /\ Loaded = {flushLog.merged}
     /\ \A o \in LoadStateOutcomes(primary, backup, TRUE) : o.from = "main"
     /\ LastUpdatedOf(primary, Now(clock)) = flushLog.lastUpdated

C14_Witness ==
  /\ flushLog.result = "ok" /\ JsIdle
  /\ flushLog.prePrimary = Missing /\ flushLog.preBackup = Missing
  /\ flushLog.updates = <<StateUpdate(FMap(Cfg1), FAbsent),
                          StateUpdate(FAbsent, FMap(Sweep))>>
  /\ Loaded = {BotState("1.0.0", Cfg1, "k2" :> "v1")}

\* C15: a fragment that names key K with a null/absent value - as
\* removeSession(K) and removeWorkingDirectory(K) build it, without the
\* replace-all marker - removes K from that category: K is absent from the
\* merged snapshot and from what load() reads back once it is written.
Removes(f, k) == f.t = "map" /\ k \in DOMAIN f.m /\ Falsy(f.m[k])
Sweeps(f) == f.t = "map" /\ Truthy(f.m, REPLACE_ALL)

C15_NullRemovesKey ==
  (mergeCall.called /\ Len(mergeCall.updates) >= 1) =>
     LET B == mergeCall.updates[Len(mergeCall.updates)]
         back == LoadAndValidateFile(Stringify(mergeCall.result))
     IN \A k \in Keys :
          /\ (Removes(B.workingDirectories, k) /\ ~Sweeps(B.workingDirectories))
               => /\ k \notin DOMAIN mergeCall.result.workingDirectories
                  /\ k \notin DOMAIN back.workingDirectories
          /\ (Removes(B.sessions, k) /\ ~Sweeps(B.sessions))
               => /\ k \notin DOMAIN mergeCall.result.sessions
                  /\ k \notin DOMAIN back.sessions

\* removeSession("k1") on a snapshot holding sessions k1 and k2
C15_Witness ==
  /\ mergeCall.called
  /\ "k1" \in DOMAIN mergeCall.state.sessions
  /\ mergeCall.updates = <<StateUpdate(FAbsent, FMap("k1" :> Null))>>
  /\ mergeCall.result.sessions = "k2" :> "v2"

\* C16: a fragment carrying the replace-all marker for a category leaves
\* that category holding exactly the fragment's non-marker entries; every
\* prior key the fragment does not list is gone.
C16_ReplaceAll ==
  (mergeCall.called /\ Len(mergeCall.updates) >= 1) =>
     LET B == mergeCall.updates[Len(mergeCall.updates)]
     IN /\ Sweeps(B.workingDirectories)
             => mergeCall.result.workingDirectories
                  = Without(B.workingDirectories.m, REPLACE_ALL)
        /\ Sweeps(B.sessions)
             => mergeCall.result.sessions = Without(B.sessions.m, REPLACE_ALL)

C16_Witness ==
  /\ mergeCall.called
  /\ DOMAIN mergeCall.state.sessions = {"k1", "k2"}
  /\ mergeCall.updates = <<StateUpdate(FAbsent, FMap(Sweep))>>
  /\ mergeCall.result.sessions = "k2" :> "v1"

\* C17: a replace-all fragment followed in the same batch by a fragment
\* that sets K: the merged category holds K with the later fragment's value
\* and every entry of the sweep the later fragment does not name, and
\* nothing from before the sweep.
SweepThenEdit(A, B, merged) ==
  (Sweeps(A) /\ B.t = "map" /\ ~Sweeps(B)
     /\ \E k \in Keys : SetsKey(B, k)) =>
     /\ \A k \in Keys : SetsKey(B, k) => /\ k \in DOMAIN merged
                                         /\ merged[k] = B.m[k]
     /\ \A k \in DOMAIN A.m \ ({REPLACE_ALL} \cup DOMAIN B.m) :
          k \in DOMAIN merged /\ merged[k] = A.m[k]
     /\ DOMAIN merged \subseteq (DOMAIN A.m \cup DOMAIN B.m) \ {REPLACE_ALL}

C17_EditSurvivesSweep ==
  (mergeCall.called /\ Len(mergeCall.updates) = 2) =>
     LET A == mergeCall.updates[1]
         B == mergeCall.updates[2]
     IN /\ SweepThenEdit(A.workingDirectories, B.workingDirectories,
                         mergeCall.result.workingDirectories)
        /\ SweepThenEdit(A.sessions, B.sessions, mergeCall.result.sessions)

C17_Witness ==
  /\ mergeCall.called
  /\ DOMAIN mergeCall.state.sessions = {"k1", "k2"}
  /\ mergeCall.updates = <<StateUpdate(FAbsent, FMap(Sweep)),
                           StateUpdate(FAbsent, FMap(Cfg2))>>
  /\ mergeCall.result.sessions = ("k2" :> "v1") @@ Cfg2

\* C18: getStats() reports the counts and the lastUpdated of the snapshot
\* load() returns on the files as they are at the call; the fragments
\* pending at that moment change none of the three.
C18_StatsAreDurable ==
  lastStats.called =>
    \E o \in LoadStateOutcomes(lastStats.prePrimary, lastStats.preBackup, TRUE) :
      /\ lastStats.workingDirs = Cardinality(DOMAIN o.state.workingDirectories)
      /\ lastStats.sessions = Cardinality(DOMAIN o.state.sessions)
      /\ lastStats.lastUpdated =
           LoadedLastUpdated(o, lastStats.prePrimary, lastStats.preBackup,
                             lastStats.now)

\* two fragments pending (a new directory key, a session sweep) on a valid
\* file: the counts and the timestamp are the file's
C18_Witness ==
  /\ lastStats.called
  /\ lastStats.prePrimary = GoodFile
  /\ pendingUpdates = <<StateUpdate(FMap(Cfg1), FAbsent),
                        StateUpdate(FAbsent, FMap(Sweep))>>
  /\ lastStats.pending = 2
  /\ lastStats.workingDirs = 1 /\ lastStats.sessions = 1
  /\ lastStats.lastUpdated = T0
  /\ lastStats.fileExists

\* C19 (as stated): isHealthy() is false exactly when the target path is a
\* directory, the containing directory is missing, or the probe file cannot
\* be written there, and true otherwise.
ProbeUnwritable ==
  \/ lastHealth.preDir # "dir"
  \/ lastHealth.probe = "writeFailed"

C19_HealthAsStated ==
  lastHealth.called =>
    (~lastHealth.result <=>
       \/ lastHealth.prePrimary.kind = "dir"
       \/ lastHealth.preDir = "missing"
       \/ ProbeUnwritable)

\* C19 (amended): isHealthy() is false exactly when the target path is a
\* directory, the containing directory is missing or not a directory, or
\* the probe file cannot be written or cannot be deleted again; true
\* otherwise - in particular once a blocking directory has been removed.
C19_HealthProbe ==
  lastHealth.called =>
    (~lastHealth.result <=>
       \/ lastHealth.prePrimary.kind = "dir"
       \/ lastHealth.preDir = "missing"
       \/ ProbeUnwritable
       \/ lastHealth.probe = "unlinkFailed")

\* the previous call failed on a directory at the target path; the path
\* was freed and this call returns true, leaving no probe file
C19_Witness ==
  /\ lastHealth.called /\ lastHealth.result
  /\ lastHealth.prevBlocked
  /\ lastHealth.prePrimary = Missing
  /\ lastHealth.probe = "deleted"
  /\ testFile = Missing

\* C20: after WorkingDirectoryManager mutations, a flush request that
\* resolved with every write succeeding, and a restart, the map hydrated
\* from load() equals the in-memory map from before the restart.
C20_HydratedEqualsMemory ==
  (wdmLog.restarted /\ wdmLog.flushed) => wdmLog.after = wdmLog.before

\* a step in which scheduleAutoSave accepted a fragment
ScheduleStep == nUpdates' = nUpdates + 1 /\ saveTimeout' = "armed"

\* C23: scheduleAutoSave performs no disk I/O and does not block: the step
\* appends the fragment to the pending list and (re)arms the timer; the
\* state file, the backup and the temp file stay as they are, no write is
\* started and no flush request is left waiting.
C23_ScheduleNoIO ==
  [][ScheduleStep =>
       /\ UNCHANGED <<disk, dataDir, testFile>>
       /\ UNCHANGED <<isWriting, writeLock, procs, microtasks, save>>
       /\ \E u \in Updates : pendingUpdates' = Append(pendingUpdates, u)
       /\ timers' = (nUpdates' :> SaveDelay)]_vars

\* a flush has written the state file, a fragment was scheduled after it,
\* and the file is still the one the flush wrote
C23_Witness ==
  /\ flushLog.result = "ok"
  /\ pendingUpdates # <<>> /\ saveTimeout = "armed"
  /\ primary = WithLastUpdated(Stringify(flushLog.merged),
                               flushLog.lastUpdated)
  /\ tmp = Missing

\* the flush requests that are inside the write protocol: between setting
\* isWriting and the finally block that clears it
Writers == {p \in Procs : procs[p] \in {"performSave", "awaitSave"}}

\* C26: at most one execution of the write protocol is in progress at any
\* time: at most one flush request is between setting isWriting and
\* clearing it, isWriting is set exactly while there is one, and
\* performSave runs only for that request.
C26_OneWriter ==
  /\ Cardinality(Writers) <= 1
  /\ isWriting <=> Writers # {}
  /\ save.pc # "idle" => procs[save.owner] = "performSave"

\* a second flush request arrived while a write was in progress and waits
\* for it
C26_Witness ==
  /\ \E p \in Procs : procs[p] = "awaitSave"
  /\ \E q \in Procs : procs[q] = "awaitLock"
  /\ pendingUpdates # <<>>

\* C27: at most one debounce timer is armed at a time; each
\* scheduleAutoSave call cancels the previous timer and arms a new one
\* with the full delay, so a timer callback runs only when SaveDelay
\* seconds have passed without a scheduleAutoSave call.
C27_OneTimer ==
  /\ [](Cardinality(DOMAIN timers) <= 1)
  /\ [][/\ ScheduleStep => timers' = (nUpdates' :> SaveDelay)
        /\ (\E t \in DOMAIN timers : TimeoutCallback(t)) =>
              quiet = SaveDelay]_vars

\* two fragments were scheduled, the second re-arming the timer, and the
\* timer's flush took both after the quiet period
C27_Witness ==
  /\ saveTimeout = "expired" /\ timers = NoTimers
  /\ quiet = SaveDelay
  /\ nUpdates = 2
  /\ flushLog.result # "none" /\ Len(flushLog.updates) = 2

\* C28: forceSave cancels the armed timer before it flushes: from the
\* call until the next scheduleAutoSave call (while the handle field is
\* null) no timer is live, so no timer callback can run.
C28_ForceCancelsTimer ==
  saveTimeout = "null" => timers = NoTimers

\* forceSave was called one second after a fragment was scheduled, before
\* the timer was due
C28_Witness ==
  /\ saveTimeout = "null" /\ timers = NoTimers
  /\ quiet = 1
  /\ nUpdates >= 1
  /\ \E p \in Procs : procs[p] # "unused"

\* the non-empty pending lists producers can build
PendingLists == UNION {[1..n -> Updates] : n \in 1..MaxUpdates}

IsPrefix(s, t) == Len(s) <= Len(t) /\ SubSeq(t, 1, Len(s)) = s

\* C29: when no forceSave is called and scheduleAutoSave calls stop, every
\* pending list is eventually followed by a state in which the pending
\* list is empty and a write attempt (successful or failed) whose batch
\* starts with that list has run to its end.
C29_TimerDrainsQueue ==
  \A list \in PendingLists :
    (pendingUpdates = list) ~>
      /\ pendingUpdates = <<>>
      /\ flushLog.result \in {"ok", "failed"}
      /\ IsPrefix(list, flushLog.updates)

\* the timer alone has flushed two scheduled fragments in one write
C29_Witness ==
  /\ \A p \in Procs : procs[p] \in {"unused", "resolved"}
  /\ procs[1] = "resolved"
  /\ flushLog.result = "ok" /\ Len(flushLog.updates) = 2
  /\ pendingUpdates = <<>>
  /\ saveTimeout = "expired"

\* the keys of category map `after` that differ from `before`
ChangedKeys(before, after) ==
  {k \in DOMAIN before \cup DOMAIN after :
     \/ k \notin DOMAIN before
     \/ k \notin DOMAIN after
     \/ before[k] # after[k]}

\* the keys a fragment's category field names (none when it is absent)
NamedKeys(f) == IF f.t = "map" THEN DOMAIN f.m ELSE {}
HasMarker(f) == f.t = "map" /\ REPLACE_ALL \in DOMAIN f.m

\* C30: a fragment without the replace-all marker for a category changes
\* only the keys it names in that category, be they zero or more: every
\* key it does not name keeps its value.
C30_OnlyNamedKeysChange ==
  (mergeCall.called /\ Len(mergeCall.updates) >= 1) =>
     LET n == Len(mergeCall.updates)
         B == mergeCall.updates[n]
         prev == MergeUpdates(mergeCall.state, SubSeq(mergeCall.updates, 1, n - 1))
     IN /\ ~HasMarker(B.workingDirectories) =>
             ChangedKeys(prev.workingDirectories,
                         mergeCall.result.workingDirectories)
               \subseteq NamedKeys(B.workingDirectories)
        /\ ~HasMarker(B.sessions) =>
             ChangedKeys(prev.sessions, mergeCall.result.sessions)
               \subseteq NamedKeys(B.sessions)

\* C32 (as stated): after a successful flush that found an existing
\* primary, the backup's content equals the primary's content from just
\* before that flush.
C32_BackupIsPrePrimary ==
  (flushLog.result = "ok" /\ ExistsSync(flushLog.prePrimary))
    => backup = flushLog.prePrimary

\* the primary as the load step of the last flush can have left it
PrimaryAfterLoad ==
  {o.primary : o \in LoadStateOutcomes(flushLog.prePrimary,
                                       flushLog.preBackup, TRUE)}

\* C32 (amended): the backup is written only by the backup step, after
\* the temp write has succeeded: it is unchanged while the flush loads,
\* merges and writes the temp file, and when the temp write fails. After
\* a successful flush the backup equals the primary as it stood when the
\* backup step ran: the pre-flush primary when that was valid, otherwise
\* what the loader's restore from the backup left at the primary path
\* (the backup's own content when the restore succeeded); it is unchanged
\* when no primary existed then.
C32_BackupAfterTempWrite ==
  /\ [](save.pc \in {"load", "write", "backup"}
          => backup = flushLog.preBackup)
  /\ [](flushLog.result = "ok" =>
          /\ backup \in {f \in PrimaryAfterLoad : ExistsSync(f)}
                        \cup {flushLog.preBackup}
          /\ backup # flushLog.preBackup =>
               (backup \in PrimaryAfterLoad /\ ExistsSync(backup))
          /\ Validates(flushLog.prePrimary) => backup = flushLog.prePrimary
          /\ (~Validates(flushLog.prePrimary) /\ ~flushLog.threw
               /\ Validates(flushLog.preBackup))
               => backup = flushLog.preBackup)
  /\ [][(save.pc = "write" /\ flushLog'.result = "failed")
          => backup' = flushLog.preBackup]_vars

\* an invalid primary and a valid backup: the flush restored the backup
\* onto the primary and copied it back, so the backup kept its content
C32_Witness ==
  /\ flushLog.result = "ok" /\ ~flushLog.threw
  /\ flushLog.prePrimary = TextFile(NotJson)
  /\ flushLog.preBackup = OldFile
  /\ backup = OldFile
  /\ Validates(primary)

\* the three steps of the write protocol: temp write, backup copy, rename
InWriteProtocol == save.pc \in {"write", "backup", "rename"}

\* C33: during the write protocol the primary is changed only by the
\* final rename, and then to the complete new snapshot: the temp write,
\* the backup copy and a failure at any of the three steps leave the
\* content at the primary path as it was, so a reader sees the complete
\* previous or the complete new snapshot, never a partial one.
C33_PrimaryOnlyRenamed ==
  [][InWriteProtocol =>
       /\ primary' # primary =>
            /\ save.pc = "rename"
            /\ flushLog'.result = "ok"
            /\ primary' = tmp
            /\ LoadAndValidateFile(primary') = save.merged
       /\ flushLog'.result = "failed" => primary' = primary
       /\ flushLog'.result = "ok" =>
            LoadAndValidateFile(primary') = save.merged]_vars

\* a flush failed after its temp write: the complete new snapshot waits
\* in the temp file and the primary still holds the previous one
C33_Witness ==
  /\ flushLog.result = "failed"
  /\ Validates(tmp)
  /\ Validates(primary)
  /\ primary = flushLog.prePrimary
  /\ LoadAndValidateFile(tmp) # LoadAndValidateFile(primary)

\* the primary parsed to a JSON object; HasMap: the field holds an object,
\* LacksMap: the field is missing from the file
ParsedObject(f) == f.kind = "file" /\ f.json.t = "object"
LacksMap(f) ==
  ParsedObject(f) /\ (f.json.workingDirectories.t = "absent"
                       \/ f.json.sessions.t = "absent")
WrongMapType(f) ==
  ParsedObject(f) /\ (f.json.workingDirectories.t = "string"
                       \/ f.json.sessions.t = "string")

C35_NoTempFileLeft ==
  (JsIdle /\ flushLog.result \in {"ok", "failed"}) => tmp = Missing

\* file paths a PersistenceManager may be constructed with
FilePaths == {"bot-state.json", "s", "state.tmp", "a.test"}

\* C36: isHealthy() probes with a file whose path differs from the
\* primary, backup and temp paths; a call never creates, modifies or
\* deletes any of those three files, and after a call that returned true
\* the probe file no longer exists.
C36_ProbeLeavesFiles ==
  /\ [](\A fp \in FilePaths :
          TestPath(fp) \notin {fp, BackupPath(fp), TempPath(fp)})
  /\ [][(CallIsHealthy \/ lastHealth' # lastHealth) =>
          /\ UNCHANGED <<primary, backup, tmp>>
          /\ lastHealth'.result => testFile' = Missing]_vars
  /\ []((lastHealth.called /\ lastHealth.result) => testFile = Missing)

\* a call returned true with all three files present and a stale probe
\* file in place: the three files are as before and the probe file is gone
C36_Witness ==
  /\ lastHealth.called /\ lastHealth.result
  /\ lastHealth.preTest = ProbeFile
  /\ lastHealth.prePrimary = GoodFile
  /\ primary = GoodFile
  /\ backup = OldFile
  /\ tmp = TextFile(NotJson)
  /\ testFile = Missing

\* request p has been made and its promise is not settled yet
Waiting(p) ==
  procs[p] \in {"performSave", "awaitSave", "awaitLock", "awaitLockRej"}

Quiescent == JsIdle /\ microtasks = <<>>

\* C37: the in-flight-write guard is always released. The owner of a
\* write, resuming after its attempt has succeeded or failed, sets
\* isWriting to false and writeLock to null; once the job queue is empty
\* no guard is held and no request is left waiting; a request made while
\* the guard is free and fragments are pending starts a write; and every
\* request's promise is eventually resolved.
C37_GuardReleased ==
  /\ [](Quiescent =>
          /\ ~isWriting /\ writeLock = "null"
          /\ \A p \in Procs : procs[p] \in {"unused", "resolved"})
  /\ [][\A p \in Procs :
          (procs[p] = "awaitSave" /\ procs'[p] # "awaitSave")
            => (~isWriting' /\ writeLock' = "null"
                /\ procs'[p] = "resolved")]_vars
  /\ [][((\E a \in ForceSaveArgs : ForceSave(a)) /\ ~isWriting
          /\ pendingUpdates' # <<>>) => save'.pc = "load"]_vars
  /\ \A p \in Procs : Waiting(p) ~> procs[p] = "resolved"

\* a second request waited on the lock of a write that failed; the guard
\* was released, the waiting request ran its own write, and both promises
\* are resolved with the guard free again
C37_Witness ==
  /\ Quiescent
  /\ flushLog.result = "ok"
  /\ flushLog.retry
  /\ flushLog.prev = "failed"
  /\ ~isWriting /\ writeLock = "null"
  /\ procs[1] = "resolved" /\ procs[2] = "resolved"

\* C38: a fragment that makes the merge step fail affects at most the
\* flush that carries it: once that flush has ended the fragment is no
\* longer in the pending list, and once a later flush has ended too, with
\* every flush request finished and no timer left, no well-formed
\* fragment is left unwritten in the pending list.
C38_IllShapedConfined ==
  /\ (JsIdle /\ flushLog.result \in {"ok", "failed"}
        /\ MergeThrows(flushLog.updates))
       => ~MergeThrows(pendingUpdates)
  /\ (Quiescent /\ AllSettled /\ timers = NoTimers
        /\ flushLog.result \in {"ok", "failed"} /\ flushLog.prev = "failed")
       => \A i \in DOMAIN pendingUpdates : IllShaped(pendingUpdates[i])

\* C31: the two categories are merged independently: a fragment that
\* carries a field (entries or a replace-all marker) for one category only
\* leaves every record of the other category as it was.
C31_CategoriesIndependent ==
  (mergeCall.called /\ Len(mergeCall.updates) >= 1) =>
     LET n == Len(mergeCall.updates)
         B == mergeCall.updates[n]
         prev == MergeUpdates(mergeCall.state,
                              SubSeq(mergeCall.updates, 1, n - 1))
     IN /\ B.workingDirectories.t = "absent" =>
             mergeCall.result.workingDirectories = prev.workingDirectories
        /\ B.sessions.t = "absent" =>
             mergeCall.result.sessions = prev.sessions

\* a session sweep merged onto a snapshot with directory k2 and sessions
\* k1 and k2: the sessions are replaced, the directory stays
C31_Witness ==
  /\ mergeCall.called
  /\ mergeCall.updates = <<StateUpdate(FAbsent, FMap(Sweep))>>
  /\ mergeCall.state.workingDirectories = "k2" :> "v2"
  /\ DOMAIN mergeCall.state.sessions = {"k1", "k2"}
  /\ mergeCall.result.workingDirectories = "k2" :> "v2"
  /\ mergeCall.result.sessions = "k2" :> "v1"

\* C21: after any interleaving of createSession, updateSessionActivity and
\* cleanupInactiveSessions, once a flush has succeeded and nothing is
\* pending, the durable session map equals the handler's in-memory map.
C21_DiskEqualsMemory ==
  (pendingUpdates = <<>> /\ JsIdle /\ ~isWriting /\ flushLog.result = "ok")
    => \A s \in Loaded : s.sessions = sessions

\* C22: no explicit save is needed on shutdown: when no file operation
\* failed, the state loaded at the next start holds every change that
\* scheduleAutoSave accepted before the process stopped.
C22_ShutdownLosesNothing ==
  (wdmLog.restarted /\ lastLoad.called /\ failures = 0) =>
    /\ lastLoad.state.workingDirectories = expected.workingDirectories
    /\ lastLoad.state.sessions = expected.sessions

\* the sessions of a stored map that are at least maxAge old at second now
OldSessions(stored, now, maxAge) ==
  {k \in DOMAIN stored : now - GetTime(stored[k]) >= maxAge}

\* the last flush succeeded, nothing is pending, and its batch ended with
\* the fragment of the last cleanupOldSessions call
CleanupFlushed ==
  /\ lastCleanup.fragments # <<>>
  /\ pendingUpdates = <<>> /\ JsIdle
  /\ flushLog.result = "ok"
  /\ flushLog.updates # <<>>
  /\ flushLog.updates[Len(flushLog.updates)] = lastCleanup.fragments[1]

Assigned(map) ==
  {i \in Identities :
     \E k \in DOMAIN map : map[k] = SerializedConfig(i[1], i[2], i[3])}

\* after a flushed restart the hydrated map holds every assignment that was
\* in memory under the key Key computes for its identity, and nothing else
KeysReproduced(Key(_, _, _)) ==
  (wdmLog.restarted /\ wdmLog.flushed) =>
    /\ \A i \in Assigned(wdmLog.before) :
         /\ Key(i[1], i[2], i[3]) \in DOMAIN configs
         /\ configs[Key(i[1], i[2], i[3])] =
              SerializedConfig(i[1], i[2], i[3])
    /\ \A k \in DOMAIN configs :
         \E i \in Assigned(wdmLog.before) : k = Key(i[1], i[2], i[3])

\* C24 (as stated): the directory key is channelId alone for a channel
\* default, "<channelId>:<threadId>" for a thread override and
\* "<channelId>:<userId>" for a direct-message assignment, and these are
\* the keys found on disk after a restart.
StatedKey(channelId, threadTs, userId) ==
  IF Given(threadTs) THEN Str(channelId) \o ":" \o threadTs
  ELSE IF Given(userId) /\ StartsWith(channelId, "D")
       THEN Str(channelId) \o ":" \o userId
       ELSE Str(channelId)

C24_KeysAsStated == KeysReproduced(StatedKey)

\* C24 (amended): the directory key is channelId alone for a channel
\* default, "<channelId>-<threadTs>" for a thread override and
\* "<channelId>-<userId>" for an assignment in a direct-message channel
\* (an id starting with D) outside a thread; these are the keys found on
\* disk after a restart.
HyphenKey(channelId, threadTs, userId) ==
  IF Given(threadTs) THEN Str(channelId) \o "-" \o threadTs
  ELSE IF Given(userId) /\ StartsWith(channelId, "D")
       THEN Str(channelId) \o "-" \o userId
       ELSE Str(channelId)

C24_KeysWithHyphen == KeysReproduced(HyphenKey)

\* a thread override and a direct-message assignment were set, flushed
\* and hydrated again after a restart
C24_Witness ==
  /\ wdmLog.restarted /\ wdmLog.flushed
  /\ DOMAIN configs = {"C1-17.5", "D1-U1"}
  /\ configs["D1-U1"] = SerializedConfig(<<"D", "1">>, Undef, "U1")

\* the category maps a file holds, as written
MapsOnDisk(f) ==
  IF f.kind = "file" /\ f.json.t = "object"
  THEN {c.m : c \in {d \in {f.json.workingDirectories, f.json.sessions} :
                        d.t = "map"}}
  ELSE {}

MarkerFree(state) ==
  /\ REPLACE_ALL \notin DOMAIN state.workingDirectories
  /\ REPLACE_ALL \notin DOMAIN state.sessions

\* C39: the marker key '__REPLACE_ALL__' is never a record key of a
\* persisted or loaded snapshot: whatever fragments were scheduled,
\* sweeps of cleanupOldSessions included, no category map in the primary,
\* backup or temp file contains it, nor does the snapshot a flush has
\* merged or the one loadState returns.
C39_MarkerNeverPersisted ==
  /\ \A f \in {primary, backup, tmp} :
       \A m \in MapsOnDisk(f) : REPLACE_ALL \notin DOMAIN m
  /\ \A st \in Loaded : MarkerFree(st)
  /\ (flushLog.result \in {"ok", "failed"} /\ flushLog.merged.t = "state")
       => MarkerFree(flushLog.merged)

\* a sweep built by cleanupOldSessions, carrying the marker, has been
\* written: the session map on disk holds the kept session only
C39_Witness ==
  /\ lastCleanup.called
  /\ CleanupFlushed
  /\ HasMarker(flushLog.updates[Len(flushLog.updates)].sessions)
  /\ Validates(primary)
  /\ DOMAIN LoadAndValidateFile(primary).sessions # {}
  /\ REPLACE_ALL \notin DOMAIN LoadAndValidateFile(primary).sessions

====
